---- MODULE Spec2Model ----
(***************************************************************************)
(* carbonzipper: the retrying HTTP client of one replica group             *)
(* (HttpQuery: pickServer, doRequest, DoQuery), the fetch-response merger  *)
(* (swapFetchResponses, mergeFetchResponses, ServerFetchResponse.Merge),   *)
(* the find-response merger (ServerFindResponse.Merge) and the gRPC group  *)
(* client (ClientGRPCGroup: Fetch, Find, Info, List, Stats).               *)
(***************************************************************************)
EXTENDS Integers, Sequences, FiniteSets, TLC

(***************************************************************************)
(* Bounds of the model.                                                    *)
(***************************************************************************)
MaxServers == 2      \* a group has 1..MaxServers servers
MaxTries == 2        \* the configured maxTries is 0..MaxTries
MaxSlots == 3        \* the limiter gives a pool 1..MaxSlots slots
MaxCalls == 2        \* concurrent DoQuery calls on the one group
MaxLen == 3          \* a series holds 1..MaxLen samples
MaxStart == 2        \* a series starts at 0..MaxStart
MaxStep == 2         \* a series has step 1..MaxStep
MaxMetrics == 2      \* a fetch response holds 0..MaxMetrics metrics
MaxFindMetrics == 2  \* a find response holds 0..MaxFindMetrics metrics
MaxMatches == 2      \* a find metric holds 0..MaxMatches matches
MaxErrMetrics == 1   \* a response merged with a failed one holds 0..MaxErrMetrics metrics
MaxOps == 2          \* operations called on the one ClientGRPCGroup
MaxSize == 2         \* a delivered response message has Size() in 0..MaxSize

VARIABLES
    servers,      \* HttpQuery.servers: the ordered list of server names
    maxTries,     \* HttpQuery.maxTries
    counter,      \* HttpQuery.counter, the shared round-robin counter
    slotCount,    \* the limiter: slots of each pool
    slotsUsed,    \* the limiter: slots taken, per pool name
    healthy,      \* environment: the server that answers every request with 200, or NoServer
    picked,       \* history: how often pickServer returned each server
    calls,        \* the DoQuery calls: each one's position and locals
    pair,         \* one mergeFetchResponses(m1, m2) call: its inputs and what it left
    fetch,        \* one ServerFetchResponse.Merge(second) call: its inputs and what it left
    find,         \* ServerFindResponse.Merge on two responses, in both orders
    group         \* the ClientGRPCGroup: the operation in progress and what the operations returned

queryVars == <<servers, maxTries, counter, slotCount, slotsUsed, healthy, picked, calls>>
mergeVars == <<pair, fetch, find>>
groupVars == <<group>>
vars == <<queryVars, mergeVars, groupVars>>

(***************************************************************************)
(* Names.                                                                  *)
(***************************************************************************)
GroupName == "group"
AllServers == <<"s0", "s1", "s2", "s3">>
NoServer == "none"
NoError == "nil"
NoResponse == "nil"
ErrNotFound == "ErrNotFound"           \* types.ErrNotFound, HTTP 404
ErrFailedToFetch == "ErrFailedToFetch" \* any status but 200 and 404
ErrIO == "ErrIO"                       \* client.Do failed: transport error
ErrBody == "ErrBody"                   \* ioutil.ReadAll failed: body-read error
ErrURL == "ErrURL"                     \* url.Parse / http.NewRequest failed
ErrCancelled == "ErrCancelled"         \* the context is cancelled or past its deadline

Calls == 1..MaxCalls
Max(a, b) == IF a > b THEN a ELSE b
ServerSet == {servers[i] : i \in 1..Len(servers)}
PoolNames == {GroupName} \cup {AllServers[i] : i \in 1..Len(AllServers)}

(***************************************************************************)
(* The limiter (limiter.ServerLimiter): a pool of slotCount slots per      *)
(* name.  enter takes a slot of the named pool when one is free; leave     *)
(* returns a slot to the named pool, and finds nothing to return in a pool *)
(* of which no slot is taken.                                              *)
(***************************************************************************)
CanEnter(name) == slotsUsed[name] < slotCount

LimiterEnter(name) == [slotsUsed EXCEPT ![name] = @ + 1]

LimiterLeave(name) == [slotsUsed EXCEPT ![name] = IF @ > 0 THEN @ - 1 ELSE 0]

(***************************************************************************)
(* HttpQuery.pickServer: the index of the server it returns and the        *)
(* counter it leaves.  One server: that server, the counter untouched.     *)
(* Otherwise the counter is incremented atomically (uint64: the model's    *)
(* calls make far fewer than 2^64 picks, so it never wraps here) and       *)
(* indexes the list modulo its length.                                     *)
(***************************************************************************)
pickServerStale(cnt) ==
    IF Len(servers) = 1
    THEN [counter |-> cnt, server |-> servers[1]]
    ELSE [counter |-> cnt, server |-> servers[(cnt % Len(servers)) + 1]]

pickServer(cnt) ==
    IF Len(servers) = 1
    THEN [counter |-> cnt, server |-> servers[1]]
    ELSE LET c1 == cnt + 1
             idx == c1 % Len(servers)
         IN [counter |-> c1, server |-> servers[idx + 1]]

(***************************************************************************)
(* DoQuery's loop body after doRequest returned (r, e) in call record cr:  *)
(* NotFound returns at once, any other error goes on to the next try and   *)
(* is returned when the tries are used up, success returns the response.   *)
(***************************************************************************)
Finished(cr, r, e) ==
    [cr EXCEPT !.res = r, !.err = e, !.attempts = @ + 1,
               !.fails = IF e \notin {NoError, ErrNotFound} THEN @ + 1 ELSE @,
               !.offServer = @ \/ (e \in {ErrCancelled, ErrURL}),
               !.last = [server |-> cr.server, res |-> r, err |-> e]]

AfterAttemptRetryNotFound(cr, r, e) ==
    LET d == Finished(cr, r, e) IN
    IF e # NoError
    THEN IF d.try + 1 < d.tries
         THEN [d EXCEPT !.try = @ + 1, !.pc = "pick"]
         ELSE [d EXCEPT !.try = @ + 1, !.pc = "done",
                        !.ret = [res |-> NoResponse, err |-> e]]
    ELSE [d EXCEPT !.pc = "done", !.ret = [res |-> r, err |-> NoError]]

AfterAttemptConfiguredTries(cr, r, e) ==
    LET d == Finished(cr, r, e) IN
    IF e # NoError
    THEN IF e = ErrNotFound
         THEN [d EXCEPT !.pc = "done", !.ret = [res |-> NoResponse, err |-> e]]
         ELSE IF d.try + 1 < maxTries
              THEN [d EXCEPT !.try = @ + 1, !.pc = "pick"]
              ELSE [d EXCEPT !.try = @ + 1, !.pc = "done",
                             !.ret = [res |-> NoResponse, err |-> e]]
    ELSE [d EXCEPT !.pc = "done", !.ret = [res |-> r, err |-> NoError]]

AfterAttempt(cr, r, e) ==
    LET d == Finished(cr, r, e) IN
    IF e # NoError
    THEN IF e = ErrNotFound
         THEN [d EXCEPT !.pc = "done", !.ret = [res |-> NoResponse, err |-> e]]
         ELSE IF d.try + 1 < d.tries
              THEN [d EXCEPT !.try = @ + 1, !.pc = "pick"]
              ELSE [d EXCEPT !.try = @ + 1, !.pc = "done",
                             !.ret = [res |-> NoResponse, err |-> e]]
    ELSE [d EXCEPT !.pc = "done", !.ret = [res |-> r, err |-> NoError]]

NoPair == [done |-> FALSE]
NoFetch == [done |-> FALSE]
NoFind == [done |-> FALSE]
NoGroup == [pc |-> "none"]

(***************************************************************************)
(* A call that has not started.                                            *)
(***************************************************************************)
IdleCall ==
    [pc |-> "idle", ctx |-> "live", try |-> 0, tries |-> 0, server |-> NoServer,
     holding |-> FALSE, res |-> NoResponse, err |-> NoError,
     ret |-> [res |-> NoResponse, err |-> NoError],
     picks |-> 0, enters |-> 0, sends |-> 0, attempts |-> 0, fails |-> 0,
     enterFails |-> 0, offServer |-> FALSE,
     rv |-> [res |-> NoResponse, err |-> NoError],
     last |-> [server |-> NoServer, res |-> NoResponse, err |-> NoError]]

QueryInit ==
    /\ \E n \in 1..MaxServers : servers = SubSeq(AllServers, 1, n)
    /\ maxTries \in 0..MaxTries
    /\ counter = 0
    /\ slotCount \in 1..MaxSlots
    /\ slotsUsed = [p \in PoolNames |-> 0]
    /\ healthy \in {NoServer} \cup ServerSet
    /\ picked = [s \in ServerSet |-> 0]
    /\ calls = [c \in Calls |-> IdleCall]
    /\ pair = NoPair
    /\ fetch = NoFetch
    /\ find = NoFind
    /\ group = NoGroup

(***************************************************************************)
(* DoQuery, entry: tries = max(maxTries, len(servers)), try = 0.           *)
(***************************************************************************)
DoQuery(c) ==
    /\ calls[c].pc = "idle"
    /\ LET t == Max(maxTries, Len(servers)) IN
       calls' = [calls EXCEPT ![c] =
                   IF 0 < t THEN [@ EXCEPT !.tries = t, !.pc = "pick"]
                   ELSE [@ EXCEPT !.tries = t, !.pc = "done"]]
    /\ UNCHANGED <<servers, maxTries, counter, slotCount, slotsUsed, healthy, picked, mergeVars, groupVars>>

(***************************************************************************)
(* doRequest, up to the limiter: pickServer, then the URL and the request  *)
(* are built; a failure there returns before any slot is asked for.        *)
(***************************************************************************)
PickServer(c) ==
    /\ calls[c].pc = "pick"
    /\ LET p == pickServer(counter) IN
       /\ counter' = p.counter
       /\ picked' = [picked EXCEPT ![p.server] = @ + 1]
       /\ \E urlOk \in BOOLEAN :
            LET cr == [calls[c] EXCEPT !.server = p.server, !.picks = @ + 1] IN
            calls' = [calls EXCEPT ![c] =
                        IF urlOk THEN [cr EXCEPT !.pc = "enter"]
                        ELSE AfterAttempt(cr, NoResponse, ErrURL)]
    /\ UNCHANGED <<servers, maxTries, slotCount, slotsUsed, healthy, mergeVars, groupVars>>

(***************************************************************************)
(* doRequest at limiter.Enter(ctx, groupName): it returns nil once a slot  *)
(* of the group's pool is taken and the context's error once the context   *)
(* is done, whichever comes first; it blocks while neither is the case.    *)
(* With a slot the call goes on to client.Do: its request is in flight     *)
(* while pc = "do".  Without one doRequest returns the error.              *)
(***************************************************************************)
EnterIgnoringError(c) ==
    /\ calls[c].pc = "enter"
    /\ \/ /\ CanEnter(GroupName)
          /\ slotsUsed' = LimiterEnter(GroupName)
          /\ calls' = [calls EXCEPT ![c] =
                         [@ EXCEPT !.enters = @ + 1, !.holding = TRUE,
                                   !.sends = @ + 1, !.pc = "do"]]
       \/ /\ calls[c].ctx = "done"
          /\ slotsUsed' = slotsUsed
          /\ calls' = [calls EXCEPT ![c] =
                         [@ EXCEPT !.enters = @ + 1, !.enterFails = @ + 1,
                                   !.sends = @ + 1, !.pc = "do"]]
    /\ UNCHANGED <<servers, maxTries, counter, slotCount, healthy, picked, mergeVars, groupVars>>

Enter(c) ==
    /\ calls[c].pc = "enter"
    /\ \/ /\ CanEnter(GroupName)
          /\ slotsUsed' = LimiterEnter(GroupName)
          /\ calls' = [calls EXCEPT ![c] =
                         [@ EXCEPT !.enters = @ + 1, !.holding = TRUE,
                                   !.sends = @ + 1, !.pc = "do"]]
       \/ /\ calls[c].ctx = "done"
          /\ slotsUsed' = slotsUsed
          /\ calls' = [calls EXCEPT ![c] =
                         AfterAttempt([@ EXCEPT !.enters = @ + 1, !.enterFails = @ + 1],
                                      NoResponse, ErrCancelled)]
    /\ UNCHANGED <<servers, maxTries, counter, slotCount, healthy, picked, mergeVars, groupVars>>

(***************************************************************************)
(* doRequest from client.Do to its return statement: what the round trip   *)
(* gives.  The healthy server answers 200 with a readable body; any other  *)
(* server answers 200, 404, another status, or the transport or the body   *)
(* read fails; a context that is done can end the round trip with the      *)
(* context's error.  The return values wait in rv for the deferred Leave.  *)
(***************************************************************************)
Outcomes(cr) ==
    (IF cr.server = healthy
     THEN {NoError}
     ELSE {NoError, ErrNotFound, ErrFailedToFetch, ErrIO, ErrBody})
    \cup (IF cr.ctx = "done" THEN {ErrCancelled} ELSE {})

Transport(c) ==
    /\ calls[c].pc = "do"
    /\ \E e \in Outcomes(calls[c]) :
         calls' = [calls EXCEPT ![c] =
                     [@ EXCEPT !.pc = "leave",
                               !.rv = [res |-> IF e = NoError THEN calls[c].server ELSE NoResponse,
                                       err |-> e]]]
    /\ UNCHANGED <<servers, maxTries, counter, slotCount, slotsUsed, healthy, picked, mergeVars, groupVars>>

(***************************************************************************)
(* doRequest returning after Enter succeeded: the deferred                 *)
(* limiter.Leave(ctx, server) runs, on the pool named by the picked        *)
(* server, and DoQuery's loop takes the return values.                     *)
(***************************************************************************)
Leave(c) ==
    /\ calls[c].pc = "leave"
    /\ slotsUsed' = LimiterLeave(calls[c].server)
    /\ calls' = [calls EXCEPT ![c] =
                   AfterAttempt([@ EXCEPT !.holding = FALSE], @.rv.res, @.rv.err)]
    /\ UNCHANGED <<servers, maxTries, counter, slotCount, healthy, picked, mergeVars, groupVars>>

(***************************************************************************)
(* The caller's context is cancelled or its deadline passes.               *)
(***************************************************************************)
Cancel(c) ==
    /\ calls[c].pc # "done"
    /\ calls[c].ctx = "live"
    /\ calls' = [calls EXCEPT ![c] = [@ EXCEPT !.ctx = "done"]]
    /\ UNCHANGED <<servers, maxTries, counter, slotCount, slotsUsed, healthy, picked, mergeVars, groupVars>>

QueryNext ==
    \E c \in Calls :
        \/ DoQuery(c)
        \/ PickServer(c)
        \/ Enter(c)
        \/ Transport(c)
        \/ Leave(c)
        \/ Cancel(c)

Spec == QueryInit /\ [][QueryNext]_vars

(***************************************************************************)
(* The fetch merger.  A series (protov3.FetchResponse) is a record         *)
(* [name, start, stop, step, values]; ConsolidationFunc, XFilesFactor and  *)
(* AppliedFunctions travel with name wherever the code moves them and are  *)
(* not read by it.  A sample is NaN or a number; the code only tests       *)
(* samples with math.IsNaN and copies them.                                *)
(***************************************************************************)
NaN == "NaN"
IsNaN(v) == v = NaN
ErrResponseLengthMismatch == "ErrResponseLengthMismatch"
ErrResponseStartTimeMismatch == "ErrResponseStartTimeMismatch"
Panic == "panic: index out of range"

\* swapFetchResponses: the two series as it leaves them, <<m1, m2>>.
swapFetchResponses(m1, m2) ==
    << [m1 EXCEPT !.name = m2.name, !.start = m2.start, !.step = m2.step,
                  !.values = m2.values, !.stop = m2.stop],
       [m2 EXCEPT !.name = m1.name, !.start = m1.start, !.step = m1.step,
                  !.values = m1.values, !.stop = m1.stop] >>

\* A padding of one NaN, whatever the difference of the lengths.
PadNaNOnce(values, n) == Append(values, NaN)

\* mergeFetchResponses, lines 117-119: m2.Values padded with n NaN.
PadNaN(values, n) == values \o [i \in 1..n |-> NaN]

\* mergeFetchResponses, lines 140-144: the resampling loop from timestamp ts
\* on, acc the values collected so far.  m2.Values[idx] with idx beyond the
\* slice panics.
RECURSIVE Resample(_, _, _, _)
Resample(m1, m2, ts, acc) ==
    IF ts < m1.stop
    THEN LET idx == (ts - m1.start) \div m2.step IN
         IF idx >= Len(m2.values)
         THEN [values |-> acc, panic |-> TRUE]
         ELSE Resample(m1, m2, ts + m1.step, Append(acc, m2.values[idx + 1]))
    ELSE [values |-> acc, panic |-> FALSE]

\* A length equalization that fails on the stop-time guard alone.
EqualizeLengthsGuardOnly(a, b) ==
    IF Len(a.values) = Len(b.values)
    THEN [m1 |-> a, m2 |-> b, err |-> NoError]
    ELSE LET sw == IF Len(a.values) < Len(b.values)
                   THEN swapFetchResponses(a, b) ELSE <<a, b>>
             m1 == sw[1]
             m2 == sw[2]
             interpolate == m1.step < m2.step
         IN IF ~interpolate /\ m1.start = m2.start
            THEN [m1 |-> m1,
                  m2 |-> [m2 EXCEPT !.values =
                            PadNaN(@, Len(m1.values) - Len(m2.values))],
                  err |-> NoError]
            ELSE IF m1.stop - (m1.stop % m2.step) # m2.stop
            THEN [m1 |-> m1, m2 |-> m2, err |-> ErrResponseLengthMismatch]
            ELSE LET r == Resample(m1, m2, m1.start, <<>>) IN
                 IF r.panic
                 THEN [m1 |-> m1, m2 |-> m2, err |-> Panic]
                 ELSE [m1 |-> m1,
                       m2 |-> [m2 EXCEPT !.values = r.values, !.step = m1.step,
                                         !.start = m1.start, !.stop = m1.stop],
                       err |-> NoError]

\* mergeFetchResponses, lines 107-149: the length equalization.
\* [m1, m2, err]; err is NoError when the code goes on to the label out.
EqualizeLengths(a, b) ==
    IF Len(a.values) = Len(b.values)
    THEN [m1 |-> a, m2 |-> b, err |-> NoError]
    ELSE LET sw == IF Len(a.values) < Len(b.values)
                   THEN swapFetchResponses(a, b) ELSE <<a, b>>
             m1 == sw[1]
             m2 == sw[2]
             interpolate == m1.step < m2.step
         IN IF ~interpolate /\ m1.start = m2.start
            THEN [m1 |-> m1,
                  m2 |-> [m2 EXCEPT !.values =
                            PadNaN(@, Len(m1.values) - Len(m2.values))],
                  err |-> NoError]
            ELSE IF ~interpolate \/ m1.stop - (m1.stop % m2.step) # m2.stop
            THEN [m1 |-> m1, m2 |-> m2, err |-> ErrResponseLengthMismatch]
            ELSE LET r == Resample(m1, m2, m1.start, <<>>) IN
                 IF r.panic
                 THEN [m1 |-> m1, m2 |-> m2, err |-> Panic]
                 ELSE [m1 |-> m1,
                       m2 |-> [m2 EXCEPT !.values = r.values, !.step = m1.step,
                                         !.start = m1.start, !.stop = m1.stop],
                       err |-> NoError]

\* mergeFetchResponses, lines 156-165: the gap fill from index i on (1-based).
\* m2.Values[i] is read only where m1.Values[i] is NaN.
RECURSIVE GapFillOverwrite(_, _, _)
GapFillOverwrite(v1, v2, i) ==
    IF i > Len(v1)
    THEN [values |-> v1, panic |-> FALSE]
    ELSE IF i > Len(v2)
    THEN [values |-> v1, panic |-> TRUE]
    ELSE IF ~IsNaN(v2[i])
    THEN GapFillOverwrite([v1 EXCEPT ![i] = v2[i]], v2, i + 1)
    ELSE GapFillOverwrite(v1, v2, i + 1)

RECURSIVE GapFill(_, _, _)
GapFill(v1, v2, i) ==
    IF i > Len(v1)
    THEN [values |-> v1, panic |-> FALSE]
    ELSE IF ~IsNaN(v1[i])
    THEN GapFill(v1, v2, i + 1)
    ELSE IF i > Len(v2)
    THEN [values |-> v1, panic |-> TRUE]
    ELSE IF ~IsNaN(v2[i])
    THEN GapFill([v1 EXCEPT ![i] = v2[i]], v2, i + 1)
    ELSE GapFill(v1, v2, i + 1)

\* A pair merge without the alignment check of lines 152-154.
mergeFetchResponsesUnaligned(a, b) ==
    LET eq == EqualizeLengths(a, b) IN
    IF eq.err # NoError
    THEN eq
    ELSE LET g == GapFill(eq.m1.values, eq.m2.values, 1) IN
         [m1 |-> [eq.m1 EXCEPT !.values = g.values],
          m2 |-> eq.m2,
          err |-> IF g.panic THEN Panic ELSE NoError]

\* mergeFetchResponses(m1, m2): the two series as it leaves them and what it
\* returns (err); a panic leaves through err = Panic.
mergeFetchResponses(a, b) ==
    LET eq == EqualizeLengths(a, b) IN
    IF eq.err # NoError
    THEN eq
    ELSE IF eq.m1.start # eq.m2.start
    THEN [eq EXCEPT !.err = ErrResponseStartTimeMismatch]
    ELSE LET g == GapFill(eq.m1.values, eq.m2.values, 1) IN
         [m1 |-> [eq.m1 EXCEPT !.values = g.values],
          m2 |-> eq.m2,
          err |-> IF g.panic THEN Panic ELSE NoError]

(***************************************************************************)
(* The series a merge is tried on: every series that keeps the FetchMetric *)
(* invariants (step > 0, stop > start, len(values) = (stop - start)/step)  *)
(* within the bounds.                                                      *)
(***************************************************************************)
ValueSeqs(vs) == UNION {[1..n -> vs] : n \in 1..MaxLen}

Series(names, vs) ==
    {[name |-> nm, start |-> st, stop |-> st + Len(v) * sp, step |-> sp, values |-> v] :
        nm \in names, st \in 0..MaxStart, sp \in 1..MaxStep, v \in ValueSeqs(vs)}

PairInit ==
    /\ \E a \in Series({"a"}, {NaN, "1.0"}), b \in Series({"a", "b"}, {NaN, "2.0"}) :
         pair = [done |-> FALSE, in1 |-> a, in2 |-> b, m1 |-> a, m2 |-> b, err |-> NoError]
    /\ servers = <<>> /\ maxTries = 0 /\ counter = 0 /\ slotCount = 0
    /\ slotsUsed = <<>> /\ healthy = NoServer /\ picked = <<>> /\ calls = <<>>
    /\ fetch = NoFetch /\ find = NoFind /\ group = NoGroup

MergePair ==
    /\ ~pair.done
    /\ LET r == mergeFetchResponses(pair.m1, pair.m2) IN
       pair' = [pair EXCEPT !.done = TRUE, !.m1 = r.m1, !.m2 = r.m2, !.err = r.err]
    /\ UNCHANGED <<queryVars, fetch, find, groupVars>>

PairNext == MergePair

SpecPair == PairInit /\ [][PairNext]_vars

(***************************************************************************)
(* types.Stats: the counters render_errors, find_errors and                *)
(* memory_usage_bytes and the lists servers and failed_servers.  Merge     *)
(* sums the counters and concatenates each list, dropping the names the    *)
(* list already holds.                                                     *)
(***************************************************************************)
RECURSIVE AppendNew(_, _)
AppendNew(list, more) ==
    IF more = <<>>
    THEN list
    ELSE IF \E k \in 1..Len(list) : list[k] = Head(more)
    THEN AppendNew(list, Tail(more))
    ELSE AppendNew(Append(list, Head(more)), Tail(more))

StatsMerge(a, b) ==
    [renderErrors |-> a.renderErrors + b.renderErrors,
     findErrors |-> a.findErrors + b.findErrors,
     memoryUsage |-> a.memoryUsage + b.memoryUsage,
     servers |-> AppendNew(a.servers, b.servers),
     failedServers |-> AppendNew(a.failedServers, b.failedServers)]

\* The stats a response of the backend srv arrives with: the backend is in
\* servers when it answered, in failedServers with one error counted when
\* it failed.
ResponseStats(srv, failed) ==
    [renderErrors |-> IF failed THEN 1 ELSE 0,
     findErrors |-> 0,
     memoryUsage |-> IF failed THEN 0 ELSE 1,
     servers |-> IF failed THEN <<>> ELSE <<srv>>,
     failedServers |-> IF failed THEN <<srv>> ELSE <<>>]

(***************************************************************************)
(* ServerFetchResponse.Merge.  A response is its Response.Metrics (a       *)
(* sequence of series, indices 1-based here) and whether its Err is set.   *)
(***************************************************************************)
NamesOf(ms) == {ms[i].name : i \in 1..Len(ms)}

\* Lines 176-179: the map from a name to the index of first's metric of that
\* name; a later metric of the same name overwrites an earlier one.
MetricIndex(ms) ==
    [n \in NamesOf(ms) |->
        CHOOSE i \in 1..Len(ms) :
            ms[i].name = n /\ \A k \in (i + 1)..Len(ms) : ms[k].name # n]

\* Lines 181-191: the loop over second's metrics from index i on.  metrics is
\* the map built before the loop.  For a name the map holds, the code calls
\* mergeFetchResponses(&first.Metrics[i], &second.Metrics[j]) with i the
\* loop index in second and j the index the map gives in first; an index
\* beyond the slice, or a panic of the pair merge, ends Merge by a panic.
\* log records each pair merge: the two indices and the two names.
RECURSIVE MergeMetrics(_, _, _, _, _)
MergeMetrics(first, second, metrics, i, log) ==
    IF i > Len(second)
    THEN [first |-> first, second |-> second, log |-> log, panic |-> FALSE]
    ELSE IF second[i].name \in DOMAIN metrics
    THEN LET j == metrics[second[i].name] IN
         IF i > Len(first) \/ j > Len(second)
         THEN [first |-> first, second |-> second, log |-> log, panic |-> TRUE]
         ELSE LET r == mergeFetchResponses(first[i], second[j])
                  entry == [fi |-> i, si |-> j,
                            fname |-> first[i].name, sname |-> second[j].name,
                            err |-> r.err]
              IN IF r.err = Panic
                 THEN [first |-> [first EXCEPT ![i] = r.m1],
                       second |-> [second EXCEPT ![j] = r.m2],
                       log |-> Append(log, entry), panic |-> TRUE]
                 ELSE MergeMetrics([first EXCEPT ![i] = r.m1],
                                   [second EXCEPT ![j] = r.m2],
                                   metrics, i + 1, Append(log, entry))
    ELSE MergeMetrics(Append(first, second[i]), second, metrics, i + 1, log)

\* A Merge that looks at second's error before it merges the stats.
FetchMergeErrorFirst(f) ==
    IF f.secondErr
    THEN [f EXCEPT !.done = TRUE]
    ELSE LET g == [f EXCEPT !.firstStats = StatsMerge(@, f.secondStats)]
             r == MergeMetrics(g.first, g.second, MetricIndex(g.first), 1, <<>>)
         IN [g EXCEPT !.done = TRUE, !.first = r.first, !.second = r.second,
                      !.log = r.log, !.panic = r.panic,
                      !.firstErr = IF r.panic THEN @ ELSE FALSE]

\* ServerFetchResponse.Merge, lines 169-197, on the fetch record f:
\* first.Stats.Merge(second.Stats) at line 170 comes before the return on
\* second's error at lines 172-174.
FetchMerge(f) ==
    LET g == [f EXCEPT !.firstStats = StatsMerge(@, f.secondStats)] IN
    IF g.secondErr
    THEN [g EXCEPT !.done = TRUE]
    ELSE LET r == MergeMetrics(g.first, g.second, MetricIndex(g.first), 1, <<>>) IN
         [g EXCEPT !.done = TRUE, !.first = r.first, !.second = r.second,
                   !.log = r.log, !.panic = r.panic,
                   !.firstErr = IF r.panic THEN @ ELSE FALSE]

(***************************************************************************)
(* The responses a merge is tried on: up to MaxMetrics one-sample series   *)
(* each, in any order, one series per name.                                *)
(***************************************************************************)
FetchNames == {"a", "b", "c"}

FetchSeries(v) ==
    {[name |-> nm, start |-> b[1], stop |-> b[1] + 1, step |-> 1, values |-> <<b[2]>>] :
        nm \in FetchNames, b \in {<<0, NaN>>, <<0, v>>, <<1, v>>}}

ResponsesUpTo(v, maxMetrics) ==
    {ms \in UNION {[1..n -> FetchSeries(v)] : n \in 0..maxMetrics} :
        \A i, k \in 1..Len(ms) : ms[i].name = ms[k].name => i = k}

Responses(v) == ResponsesUpTo(v, MaxMetrics)

\* The fetch record of first = a and second = b, whose errors are set as
\* ea and eb say; each response carries the stats of its one backend.
FetchCall(a, b, ea, eb) ==
    [done |-> FALSE, inFirst |-> a, inSecond |-> b, first |-> a, second |-> b,
     inFirstErr |-> ea, firstErr |-> ea, secondErr |-> eb,
     inFirstStats |-> ResponseStats("g1", ea), firstStats |-> ResponseStats("g1", ea),
     secondStats |-> ResponseStats("g2", eb),
     log |-> <<>>, panic |-> FALSE]

FetchInit ==
    /\ \E a \in Responses("1.0"), b \in Responses("2.0"), ea, eb \in BOOLEAN :
         fetch = FetchCall(a, b, ea, eb)
    /\ servers = <<>> /\ maxTries = 0 /\ counter = 0 /\ slotCount = 0
    /\ slotsUsed = <<>> /\ healthy = NoServer /\ picked = <<>> /\ calls = <<>>
    /\ pair = NoPair /\ find = NoFind /\ group = NoGroup

Merge ==
    /\ ~fetch.done
    /\ fetch' = FetchMerge(fetch)
    /\ UNCHANGED <<queryVars, pair, find, groupVars>>

FetchNext == Merge

SpecFetch == FetchInit /\ [][FetchNext]_vars

(***************************************************************************)
(* ServerFindResponse.Merge.  A metric name and a match path are           *)
(* dot-separated strings, held here as their sequences of labels, so that  *)
(* name + "." + path is the concatenation of the two sequences.  A find    *)
(* response is its Response.Metrics, its Err and its Stats; a metric is    *)
(* its name and the paths of its matches.                                  *)
(***************************************************************************)
\* Lines 59 and 71: the key of seenMatches.
FindKey(name, path) == name \o path

\* Lines 55-61: the keys of every match first holds before the loop.
SeenMatches(ms) ==
    UNION {{FindKey(ms[i].name, ms[i].matches[k]) : k \in 1..Len(ms[i].matches)} :
              i \in 1..Len(ms)}

\* Lines 70-76: the matches of one metric of second, from position k on,
\* are appended to first's metric of that name unless their key was seen.
RECURSIVE AddMatches(_, _, _, _)
AddMatches(metric, matches, k, seen) ==
    IF k > Len(matches)
    THEN [metric |-> metric, seen |-> seen]
    ELSE LET key == FindKey(metric.name, matches[k]) IN
         IF key \in seen
         THEN AddMatches(metric, matches, k + 1, seen)
         ELSE AddMatches([metric EXCEPT !.matches = Append(@, matches[k])],
                         matches, k + 1, seen \cup {key})

\* Lines 65-77: the loop over second's metrics from index n on.  seenMetrics
\* is the map built at lines 54-61 and is not extended by the loop: a metric
\* whose name it does not hold is appended whole.
RECURSIVE FindMergeMetrics(_, _, _, _, _)
FindMergeMetrics(first, second, seenMetrics, seenMatches, n) ==
    IF n > Len(second)
    THEN first
    ELSE IF second[n].name \notin DOMAIN seenMetrics
    THEN FindMergeMetrics(Append(first, second[n]), second, seenMetrics, seenMatches, n + 1)
    ELSE LET i == seenMetrics[second[n].name]
             r == AddMatches(first[i], second[n].matches, 1, seenMatches)
         IN FindMergeMetrics([first EXCEPT ![i] = r.metric], second,
                             seenMetrics, r.seen, n + 1)

\* ServerFindResponse.Merge, lines 48-84: first as the call leaves it and
\* the error it returns.
FindMerge(first, second) ==
    LET stats == StatsMerge(first.stats, second.stats) IN
    IF second.err # NoError
    THEN [done |-> TRUE, first |-> [first EXCEPT !.stats = stats], ret |-> second.err]
    ELSE [done |-> TRUE,
          first |-> [metrics |-> FindMergeMetrics(first.metrics, second.metrics,
                                                  MetricIndex(first.metrics),
                                                  SeenMatches(first.metrics), 1),
                     err |-> NoError,
                     stats |-> stats],
          ret |-> NoError]

(***************************************************************************)
(* The find responses a merge is tried on: up to MaxFindMetrics metrics in *)
(* any order, each with up to MaxMatches matches of different paths.       *)
(***************************************************************************)
FindNames == {<<"a">>, <<"a", "b">>}
FindPaths == {<<"c">>, <<"b", "c">>}

FindMetrics ==
    {[name |-> nm, matches |-> mm] :
        nm \in FindNames,
        mm \in {q \in UNION {[1..n -> FindPaths] : n \in 0..MaxMatches} :
                  \A i, k \in 1..Len(q) : q[i] = q[k] => i = k}}

FindResponses(maxMetrics, errs, srv) ==
    {[metrics |-> ms, err |-> e, stats |-> ResponseStats(srv, e # NoError)] :
        ms \in UNION {[1..n -> FindMetrics] : n \in 0..maxMetrics}, e \in errs}

FindInit ==
    /\ \E a \in FindResponses(MaxFindMetrics, {NoError, ErrFailedToFetch}, "g1"),
          b \in FindResponses(MaxFindMetrics, {NoError, ErrNotFound}, "g2") :
         find = [a |-> a, b |-> b, ab |-> NoFind, ba |-> NoFind]
    /\ servers = <<>> /\ maxTries = 0 /\ counter = 0 /\ slotCount = 0
    /\ slotsUsed = <<>> /\ healthy = NoServer /\ picked = <<>> /\ calls = <<>>
    /\ pair = NoPair /\ fetch = NoFetch /\ group = NoGroup

\* a.Merge(b) on a copy of a.
MergeAB ==
    /\ ~find.ab.done
    /\ find' = [find EXCEPT !.ab = FindMerge(find.a, find.b)]
    /\ UNCHANGED <<queryVars, pair, fetch, groupVars>>

\* b.Merge(a) on a copy of b.
MergeBA ==
    /\ ~find.ba.done
    /\ find' = [find EXCEPT !.ba = FindMerge(find.b, find.a)]
    /\ UNCHANGED <<queryVars, pair, fetch, groupVars>>

FindNext == MergeAB \/ MergeBA

SpecFind == FindInit /\ [][FindNext]_vars

(***************************************************************************)
(* The two Merge methods on a second response that carries an error: one   *)
(* call of either, on responses of up to MaxErrMetrics metrics.            *)
(***************************************************************************)
ErrInit ==
    /\ \/ /\ \E a \in ResponsesUpTo("1.0", MaxErrMetrics),
                b \in ResponsesUpTo("2.0", MaxErrMetrics), ea \in BOOLEAN :
                fetch = FetchCall(a, b, ea, TRUE)
          /\ find = NoFind
       \/ /\ \E a \in FindResponses(MaxErrMetrics, {NoError, ErrFailedToFetch}, "g1"),
                b \in FindResponses(MaxErrMetrics, {ErrNotFound, ErrFailedToFetch}, "g2") :
                find = [a |-> a, b |-> b, ab |-> NoFind, ba |-> NoFind]
          /\ fetch = NoFetch
    /\ servers = <<>> /\ maxTries = 0 /\ counter = 0 /\ slotCount = 0
    /\ slotsUsed = <<>> /\ healthy = NoServer /\ picked = <<>> /\ calls = <<>>
    /\ pair = NoPair /\ group = NoGroup

FetchMergeOnError == fetch # NoFetch /\ Merge

FindMergeOnError == find # NoFind /\ MergeAB

ErrNext == FetchMergeOnError \/ FindMergeOnError

SpecErr == ErrInit /\ [][ErrNext]_vars

(***************************************************************************)
(* ClientGRPCGroup: the five operations Fetch, Find, Info, List and Stats. *)
(* Each builds its stats, calls the one RPC under a timeout, accounts for  *)
(* the outcome and returns.  A failed RPC delivers no response message:    *)
(* res is nil.  Size() of a nil message is code generated outside this     *)
(* repository: it answers 0 where the generated method checks its          *)
(* receiver and panics where it does not, so nilSafeSize is either.        *)
(***************************************************************************)
GroupOps == {"fetch", "find", "info", "list", "stats"}
ErrDeadline == "DeadlineExceeded"      \* the context.WithTimeout deadline passed
ErrUnavailable == "Unavailable"        \* the transport failed
RpcErrors == {ErrDeadline, ErrUnavailable}
\* A response message: nil when none was delivered, else its Size() and,
\* for the message Info builds, the group name it wraps the response under.
NilMessage == [nil |-> TRUE, size |-> 0, under |-> ""]
Message(n) == [nil |-> FALSE, size |-> n, under |-> ""]

\* What the RPC can return: a message of some size and no error, or no
\* message and an error.
RpcOutcomes ==
    {[res |-> Message(n), err |-> NoError] : n \in 0..MaxSize}
        \cup {[res |-> NilMessage, err |-> e] : e \in RpcErrors}

\* Lines 102-104 (120-122, 137-139, 161-163, 178-180).
NewStats ==
    [renderErrors |-> 0, findErrors |-> 0, memoryUsage |-> 0,
     servers |-> <<GroupName>>, failedServers |-> <<>>]

\* Lines 109-113 (127-131, 144-148, 168-172, 185-189): every operation,
\* Find included, counts its failure in RenderErrors.
OnError(op, stats, err) ==
    IF err # NoError
    THEN [stats EXCEPT !.renderErrors = @ + 1,
                       !.failedServers = stats.servers,
                       !.servers = <<>>]
    ELSE stats

\* res.Size(), lines 114, 132, 149, 173, 190: the size, or a nil-pointer
\* panic.
Size(res, nilSafeSize) ==
    IF ~res.nil THEN [panic |-> FALSE, n |-> res.size]
    ELSE [panic |-> ~nilSafeSize, n |-> 0]

\* Lines 151-155: Info wraps *res under the group's name; *res of a nil res
\* is a nil-pointer panic.
WrapInfo(res) ==
    IF res.nil
    THEN [panic |-> TRUE, res |-> res]
    ELSE [panic |-> FALSE, res |-> [res EXCEPT !.under = GroupName]]

\* An operation from the return of its RPC to its own return: what it hands
\* back, or the panic it ends in.
Returned(op, out, nilSafeSize) ==
    LET stats == OnError(op, NewStats, out.err)
        size == Size(out.res, nilSafeSize)
        sized == [stats EXCEPT !.memoryUsage = size.n]
        r == IF op = "info" THEN WrapInfo(out.res) ELSE [panic |-> FALSE, res |-> out.res]
    IN IF size.panic
       THEN [op |-> op, panic |-> TRUE, res |-> NilMessage, stats |-> stats, err |-> out.err]
       ELSE [op |-> op, panic |-> r.panic, res |-> r.res, stats |-> sized, err |-> out.err]

GroupInit ==
    /\ \E ns \in BOOLEAN :
         group = [pc |-> "idle", nilSafeSize |-> ns, op |-> "none",
                  out |-> [res |-> NilMessage, err |-> NoError], returned |-> <<>>]
    /\ servers = <<>> /\ maxTries = 0 /\ counter = 0 /\ slotCount = 0
    /\ slotsUsed = <<>> /\ healthy = NoServer /\ picked = <<>> /\ calls = <<>>
    /\ pair = NoPair /\ fetch = NoFetch /\ find = NoFind

\* An operation is called and sends its RPC.
Call(op) ==
    /\ group.pc = "idle"
    /\ Len(group.returned) < MaxOps
    /\ group' = [group EXCEPT !.pc = "rpc", !.op = op]
    /\ UNCHANGED <<queryVars, mergeVars>>

\* The RPC returns.
RpcReturn(out) ==
    /\ group.pc = "rpc"
    /\ group' = [group EXCEPT !.pc = "account", !.out = out]
    /\ UNCHANGED <<queryVars, mergeVars>>

\* The operation accounts for the outcome and returns, or panics.
Return ==
    /\ group.pc = "account"
    /\ LET r == Returned(group.op, group.out, group.nilSafeSize) IN
       group' = [group EXCEPT !.pc = IF r.panic THEN "panicked" ELSE "idle",
                              !.returned = Append(@, r)]
    /\ UNCHANGED <<queryVars, mergeVars>>

GroupNext ==
    \/ \E op \in GroupOps : Call(op)
    \/ \E out \in RpcOutcomes : RpcReturn(out)
    \/ Return

SpecGroup == GroupInit /\ [][GroupNext]_vars

(***************************************************************************)
(* Claims about the replica-group client.                                  *)
(***************************************************************************)
Attempts == Max(maxTries, Len(servers))
Done(c) == calls[c].pc = "done"
InFlight == {c \in Calls : calls[c].pc = "do"}
Holders == {c \in Calls : calls[c].holding}
RECURSIVE SumPicks(_)
SumPicks(n) == IF n = 0 THEN 0 ELSE calls[n].picks + SumPicks(n - 1)
TotalPicks == SumPicks(MaxCalls)
Floor(k, n) == k \div n
Ceil(k, n) == (k + n - 1) \div n

\* C1: with a server that answers every request with 200 and only retryable
\* failures of the other servers, every DoQuery call that returns has
\* succeeded within max(maxTries, N) attempts, whatever other calls on the
\* group do meanwhile.  (A call counts here only if none of its attempts
\* failed off the servers: no cancellation, no URL error, no 404.)
C1_RetryCoverage ==
    \A c \in Calls :
        (/\ Done(c)
         /\ healthy # NoServer
         /\ ~calls[c].offServer
         /\ calls[c].last.err # ErrNotFound)
        => (/\ calls[c].ret.err = NoError
            /\ calls[c].ret.res # NoResponse
            /\ calls[c].attempts <= Attempts)

\* C2: an attempt that failed with the context's error ends the call with
\* that error: the call is done and takes no further step.
C2_CancelStopsRetries ==
    \A c \in Calls :
        calls[c].last.err = ErrCancelled
        => (Done(c) /\ calls[c].ret.err = ErrCancelled)

\* C3: the slots taken of the group's pool are exactly the slots held by
\* attempts that have entered and not yet returned, and once every call has
\* finished no slot of any pool is taken.
C3_SlotsReturned ==
    /\ slotsUsed[GroupName] = Cardinality(Holders)
    /\ (\A c \in Calls : Done(c)) => \A p \in PoolNames : slotsUsed[p] = 0

\* C5: the first attempt that fails with NotFound ends the call: it is done,
\* returns no response and NotFound, and from then on the call makes no
\* pickServer call, no limiter acquisition and no transport request.
C5_NotFoundStops ==
    [][\A c \in Calls :
          /\ calls'[c].last.err = ErrNotFound
             => (/\ calls'[c].pc = "done"
                 /\ calls'[c].ret = [res |-> NoResponse, err |-> ErrNotFound])
          /\ calls[c].last.err = ErrNotFound
             => (/\ calls'[c].picks = calls[c].picks
                 /\ calls'[c].enters = calls[c].enters
                 /\ calls'[c].sends = calls[c].sends
                 /\ calls'[c].ret = calls[c].ret)]_vars

C5_Witness ==
    \E c \in Calls :
        /\ Done(c)
        /\ calls[c].last.err = ErrNotFound
        /\ calls[c].attempts < calls[c].tries
        /\ \E d \in Calls : d # c /\ calls[d].picks > calls[c].picks

\* C6: at most slotCount transport requests of the group are in flight;
\* a request in flight belongs to an attempt that holds a slot (its enter
\* succeeded, its leave has not run), and an attempt whose enter failed has
\* sent nothing.
C6_LimiterDiscipline ==
    /\ Cardinality(InFlight) <= slotCount
    /\ InFlight \subseteq Holders
    /\ Cardinality(Holders) <= slotsUsed[GroupName]
    /\ \A c \in Calls : calls[c].sends = calls[c].enters - calls[c].enterFails

C6_Witness ==
    /\ Cardinality(InFlight) = slotCount
    /\ Cardinality(InFlight) < MaxCalls
    /\ \E c \in Calls : calls[c].pc = "enter" /\ ~CanEnter(GroupName)
    /\ \E c \in Calls : calls[c].enterFails > 0

\* C7: with N >= 2 servers, after K pickServer calls by any callers each
\* server was returned floor(K/N) or ceil(K/N) times; with one server that
\* server is returned every time and the counter stays untouched.
C7_RoundRobin ==
    LET n == Len(servers)
        k == TotalPicks
    IN /\ n >= 2 => \A s \in ServerSet : picked[s] \in {Floor(k, n), Ceil(k, n)}
       /\ n = 1 => /\ counter = 0
                   /\ picked[servers[1]] = k
                   /\ \A c \in Calls : calls[c].server \in {NoServer, servers[1]}

C7_Witness ==
    /\ Len(servers) >= 2
    /\ TotalPicks >= 3
    /\ \A c \in Calls : calls[c].picks >= 1
    /\ \E c \in Calls : calls[c].pc \in {"enter", "do"}

\* C8: a call whose every attempt failed with a retryable error has made
\* exactly max(maxTries, N) attempts and returns no response with the last
\* attempt's error; a successful attempt ends the call at once with that
\* attempt's response; a call runs at most one attempt at a time.
C8_RetryLoop ==
    \A c \in Calls :
        LET cr == calls[c] IN
        /\ cr.picks - cr.attempts \in {0, 1}
        /\ cr.picks - cr.attempts = 1 <=> cr.pc \in {"enter", "do", "leave"}
        /\ (Done(c) /\ cr.fails = cr.attempts)
           => (/\ cr.attempts = Attempts
               /\ cr.ret.res = NoResponse
               /\ cr.ret.err = cr.last.err
               /\ cr.ret.err \notin {NoError, ErrNotFound})
        /\ (cr.attempts > 0 /\ cr.last.err = NoError)
           => (/\ Done(c)
               /\ cr.ret = [res |-> cr.last.server, err |-> NoError]
               /\ cr.fails = cr.attempts - 1)
        /\ (~Done(c) /\ cr.pc # "idle")
           => (cr.fails = cr.attempts /\ cr.attempts < Attempts)

C8_Witness ==
    \E c \in Calls :
        /\ Done(c)
        /\ maxTries < Len(servers)
        /\ calls[c].fails = calls[c].attempts
        /\ calls[c].attempts = Len(servers)
        /\ calls[c].ret.err = ErrFailedToFetch

(***************************************************************************)
(* Claims about mergeFetchResponses.                                       *)
(***************************************************************************)
Meta(m) == [name |-> m.name, start |-> m.start, stop |-> m.stop, step |-> m.step]

\* C9: for two same-named series of equal length and equal start time
\* mergeFetchResponses succeeds; afterwards A[i] is the old A[i] where that
\* was not NaN and B[i] otherwise (NaN where both were NaN); A's metadata
\* and all of B are as before.
C9_GapFill ==
    (/\ pair.done
     /\ pair.in1.name = pair.in2.name
     /\ Len(pair.in1.values) = Len(pair.in2.values)
     /\ pair.in1.start = pair.in2.start)
    => (/\ pair.err = NoError
        /\ Len(pair.m1.values) = Len(pair.in1.values)
        /\ \A i \in 1..Len(pair.in1.values) :
              pair.m1.values[i] = IF ~IsNaN(pair.in1.values[i])
                                  THEN pair.in1.values[i]
                                  ELSE pair.in2.values[i]
        /\ Meta(pair.m1) = Meta(pair.in1)
        /\ pair.m2 = pair.in2)

C9_Witness ==
    /\ pair.done
    /\ pair.in1.name = pair.in2.name
    /\ Len(pair.in1.values) = Len(pair.in2.values)
    /\ pair.in1.start = pair.in2.start
    /\ pair.in1.step # pair.in2.step
    /\ \E i, j, k \in 1..Len(pair.in1.values) :
          /\ IsNaN(pair.in1.values[i]) /\ ~IsNaN(pair.in2.values[i])
          /\ ~IsNaN(pair.in1.values[j]) /\ ~IsNaN(pair.in2.values[j])
          /\ IsNaN(pair.in1.values[k]) /\ IsNaN(pair.in2.values[k])
          /\ pair.m1.values[i] = pair.in2.values[i]

\* C10: when m1 is the shorter series with the larger step, m2 the longer
\* with the smaller step, and m2.stop - (m2.stop mod m1.step) = m1.stop,
\* mergeFetchResponses succeeds and m1 carries m2's start, stop, step and
\* value count, every non-NaN sample of m2, and where m2 was NaN at
\* timestamp ts the coarse sample old m1.values[(ts - m2.start) / m1.step].
C10Case ==
    /\ pair.done
    /\ Len(pair.in1.values) < Len(pair.in2.values)
    /\ pair.in1.step > pair.in2.step
    /\ pair.in2.stop - (pair.in2.stop % pair.in1.step) = pair.in1.stop

C10Result ==
    /\ pair.m1.start = pair.in2.start
    /\ pair.m1.stop = pair.in2.stop
    /\ pair.m1.step = pair.in2.step
    /\ Len(pair.m1.values) = Len(pair.in2.values)
    /\ \A i \in 1..Len(pair.in2.values) :
          LET ts == pair.in2.start + (i - 1) * pair.in2.step
              idx == (ts - pair.in2.start) \div pair.in1.step
          IN pair.m1.values[i] = IF ~IsNaN(pair.in2.values[i])
                                 THEN pair.in2.values[i]
                                 ELSE pair.in1.values[idx + 1]

C10_CoarseIntoFine == C10Case => (pair.err = NoError /\ C10Result)

\* C15: when the two series differ in length by any amount, start at the
\* same time, and the longer one's step is not smaller than the shorter
\* one's, mergeFetchResponses right-pads the shorter series with NaN to
\* exactly the length of the longer one and succeeds, gap-filling over every
\* index of the longer series.
C15Longer ==
    IF Len(pair.in1.values) > Len(pair.in2.values) THEN pair.in1 ELSE pair.in2

C15Shorter ==
    IF Len(pair.in1.values) > Len(pair.in2.values) THEN pair.in2 ELSE pair.in1

C15Case ==
    /\ pair.done
    /\ Len(pair.in1.values) # Len(pair.in2.values)
    /\ pair.in1.start = pair.in2.start
    /\ C15Longer.step >= C15Shorter.step

C16Case ==
    /\ pair.done
    /\ Len(pair.in1.values) # Len(pair.in2.values)
    /\ ~(C15Longer.step >= C15Shorter.step /\ pair.in1.start = pair.in2.start)

C16Guard == C15Longer.stop - (C15Longer.stop % C15Shorter.step) = C15Shorter.stop

C16_GuardAlone ==
    C16Case => (pair.err = ErrResponseLengthMismatch <=> ~C16Guard)

\* C16 as the code has it: in that case mergeFetchResponses fails with
\* ResponseLengthMismatch exactly when m1.step >= m2.step or the guard
\* fails; otherwise it resamples m2 onto m1's grid, sample i of the grid
\* being m2.values[((i - 1) * m1.step) / m2.step], gives m2 the start, stop
\* and step of m1 and gap-fills m1 from it, unless one of those indices lies
\* beyond m2.values, where it panics.
C16Index(i) == ((i - 1) * C15Longer.step) \div C15Shorter.step

C16_InterpolateAndGuard ==
    C16Case
    => /\ pair.err = ErrResponseLengthMismatch
            <=> (C15Longer.step >= C15Shorter.step \/ ~C16Guard)
       /\ pair.err # ErrResponseLengthMismatch
            => IF \E i \in 1..Len(C15Longer.values) :
                     C16Index(i) >= Len(C15Shorter.values)
               THEN pair.err = Panic
               ELSE /\ pair.err = NoError
                    /\ pair.m2.start = C15Longer.start
                    /\ pair.m2.stop = C15Longer.stop
                    /\ pair.m2.step = C15Longer.step
                    /\ Len(pair.m2.values) = Len(C15Longer.values)
                    /\ Len(pair.m1.values) = Len(C15Longer.values)
                    /\ \A i \in 1..Len(C15Longer.values) :
                          /\ pair.m2.values[i] = C15Shorter.values[C16Index(i) + 1]
                          /\ pair.m1.values[i] = IF ~IsNaN(C15Longer.values[i])
                                                 THEN C15Longer.values[i]
                                                 ELSE pair.m2.values[i]

C16_Witness ==
    /\ C16Case
    /\ C15Longer.step >= C15Shorter.step
    /\ C16Guard
    /\ pair.err = ErrResponseLengthMismatch

(***************************************************************************)
(* Claims about ServerFetchResponse.Merge.                                 *)
(***************************************************************************)
\* C4: Merge fuses only metrics with identical names: every metric of
\* second whose name occurs in first is pair-merged into first's entry of
\* that same name, every other metric of second is appended to first, and
\* Merge runs to its end.
C4_FusesSameNames ==
    (fetch.done /\ ~fetch.secondErr)
    => (/\ ~fetch.panic
        /\ \A k \in 1..Len(fetch.log) : fetch.log[k].fname = fetch.log[k].sname
        /\ \A i \in 1..Len(fetch.inSecond) :
              LET nm == fetch.inSecond[i].name IN
              IF nm \in NamesOf(fetch.inFirst)
              THEN \E k \in 1..Len(fetch.log) :
                      /\ fetch.log[k].si = i
                      /\ fetch.log[k].fname = nm
                      /\ fetch.log[k].sname = nm
              ELSE \E k \in (Len(fetch.inFirst) + 1)..Len(fetch.first) :
                      fetch.first[k].name = nm)

\* C19: mergeFetchResponses returns ResponseStartTimeMismatch whenever,
\* after the length equalization, m1.start # m2.start, which is whenever
\* the two series have equal lengths and different starts, and then the
\* values and metadata of m1 and m2 are as they were before the call.
C19_StartMismatch ==
    pair.done
    => LET eq == EqualizeLengths(pair.in1, pair.in2) IN
       /\ (eq.err = NoError /\ eq.m1.start # eq.m2.start)
             => pair.err = ErrResponseStartTimeMismatch
       /\ (Len(pair.in1.values) = Len(pair.in2.values)
                /\ pair.in1.start # pair.in2.start)
             <=> pair.err = ErrResponseStartTimeMismatch
       /\ pair.err = ErrResponseStartTimeMismatch
             => (pair.m1 = pair.in1 /\ pair.m2 = pair.in2)

C19_Witness ==
    /\ pair.done
    /\ pair.err = ErrResponseStartTimeMismatch
    /\ pair.in1.start # pair.in2.start
    /\ \E i \in 1..Len(pair.in1.values) :
          IsNaN(pair.in1.values[i]) /\ ~IsNaN(pair.in2.values[i])
    /\ pair.m1 = pair.in1
    /\ pair.m2 = pair.in2

\* C21: whenever mergeFetchResponses returns ResponseLengthMismatch, m1
\* still holds the name, start, stop, step and values it had before the
\* call and m2 still holds its own, also when m1 was the shorter series.
C21_MismatchLeavesInputs ==
    (pair.done /\ pair.err = ErrResponseLengthMismatch)
    => (pair.m1 = pair.in1 /\ pair.m2 = pair.in2)

\* C22: for a pair of series that keep the FetchMetric invariants and pass
\* the guard of the length equalization, mergeFetchResponses never reads
\* m2.values at an index >= len(m2.values): every resample index
\* (ts - m1.start) / m2.step for ts in [m1.start, m1.stop) lies inside the
\* coarse series, whatever the two starts are.
C22_ResampleInRange ==
    (C16Case /\ C15Longer.step < C15Shorter.step /\ C16Guard)
    => /\ pair.err # Panic
       /\ \A i \in 1..Len(C15Longer.values) : C16Index(i) < Len(C15Shorter.values)

\* C17: when the pair merge of one metric fails, Merge still runs to its
\* end and every other metric of second is merged into first's entry of the
\* same name or appended; no failing pair and no combination of metric
\* counts on the two sides aborts the merge.
C17Handled(i) ==
    LET nm == fetch.inSecond[i].name IN
    IF nm \in NamesOf(fetch.inFirst)
    THEN \E k \in 1..Len(fetch.log) :
            fetch.log[k].fname = nm /\ fetch.log[k].sname = nm
    ELSE \E k \in (Len(fetch.inFirst) + 1)..Len(fetch.first) :
            fetch.first[k] = fetch.inSecond[i]

C17_PairFailureNotFatal ==
    (fetch.done /\ ~fetch.secondErr)
    => /\ ~fetch.panic
       /\ \A k \in 1..Len(fetch.log) :
             (fetch.log[k].err # NoError)
             => \A i \in 1..Len(fetch.inSecond) :
                   (fetch.inSecond[i].name # fetch.log[k].sname) => C17Handled(i)

(***************************************************************************)
(* Claims about ServerFindResponse.Merge.                                  *)
(***************************************************************************)
\* The (metric name, match path) pairs a list of find metrics holds, and the
\* paths it holds under one name.
Pairs(ms) ==
    UNION {{<<ms[i].name, ms[i].matches[k]>> : k \in 1..Len(ms[i].matches)} :
              i \in 1..Len(ms)}

PathsOf(ms, nm) == {pr[2] : pr \in {q \in Pairs(ms) : q[1] = nm}}

NoPairTwice(ms) ==
    \A i, j \in 1..Len(ms) :
        \A k \in 1..Len(ms[i].matches), l \in 1..Len(ms[j].matches) :
            (ms[i].name = ms[j].name /\ ms[i].matches[k] = ms[j].matches[l])
            => (i = j /\ k = l)

ErrorFree == find.a.err = NoError /\ find.b.err = NoError

\* C11: for two error-free find responses A and B, A.Merge(B) and B.Merge(A)
\* leave the same set of (metric name, match path) pairs in their first
\* argument.
C11_MergeCommutes ==
    (find.ab.done /\ find.ba.done /\ ErrorFree)
    => Pairs(find.ab.first.metrics) = Pairs(find.ba.first.metrics)

\* C12: after first.Merge(second) of two error-free responses whose metrics
\* each hold a path at most once, first holding no pair twice before the
\* call, no (metric name, match path) pair occurs twice in first, whatever
\* metrics second holds and in whatever order.
C12_NoDuplicatePairs ==
    (find.ab.done /\ ErrorFree /\ NoPairTwice(find.a.metrics))
    => NoPairTwice(find.ab.first.metrics)

\* C18: after first.Merge(second) of two error-free responses, for every
\* metric name the paths first holds under it are the union of the paths
\* first and second held under it: a match of second is skipped only when
\* first's metric of that name already holds its path.
C18_UnionPerName ==
    (find.ab.done /\ ErrorFree)
    => \A nm \in FindNames :
          PathsOf(find.ab.first.metrics, nm)
            = PathsOf(find.a.metrics, nm) \cup PathsOf(find.b.metrics, nm)

(***************************************************************************)
(* Claims about both Merge methods.                                        *)
(***************************************************************************)
\* after is before with other merged in: the counters summed, each list
\* holding the names of both.
StatsMerged(before, other, after) ==
    /\ after.renderErrors = before.renderErrors + other.renderErrors
    /\ after.findErrors = before.findErrors + other.findErrors
    /\ after.memoryUsage = before.memoryUsage + other.memoryUsage
    /\ {after.servers[k] : k \in 1..Len(after.servers)}
         = {before.servers[k] : k \in 1..Len(before.servers)}
             \cup {other.servers[k] : k \in 1..Len(other.servers)}
    /\ {after.failedServers[k] : k \in 1..Len(after.failedServers)}
         = {before.failedServers[k] : k \in 1..Len(before.failedServers)}
             \cup {other.failedServers[k] : k \in 1..Len(other.failedServers)}

\* C20: when second carries an error, ServerFindResponse.Merge returns that
\* error and ServerFetchResponse.Merge returns without merging data; in
\* both, first's metrics and first's own error are left as they were, and
\* second's stats are merged into first's stats.
C20_SecondErrorFrame ==
    /\ (fetch # NoFetch /\ fetch.done /\ fetch.secondErr)
         => /\ ~fetch.panic
            /\ fetch.log = <<>>
            /\ fetch.first = fetch.inFirst
            /\ fetch.firstErr = fetch.inFirstErr
            /\ StatsMerged(fetch.inFirstStats, fetch.secondStats, fetch.firstStats)
    /\ (find # NoFind /\ find.ab.done /\ find.b.err # NoError)
         => /\ find.ab.ret = find.b.err
            /\ find.ab.first.metrics = find.a.metrics
            /\ find.ab.first.err = find.a.err
            /\ StatsMerged(find.a.stats, find.b.stats, find.ab.first.stats)

C20_Witness ==
    /\ find # NoFind
    /\ find.ab.done
    /\ find.b.err = ErrNotFound
    /\ find.a.err = ErrFailedToFetch
    /\ Len(find.a.metrics) = 1 /\ Len(find.b.metrics) = 1
    /\ find.a.metrics[1].name # find.b.metrics[1].name
    /\ find.ab.ret = ErrNotFound
    /\ find.ab.first.stats.failedServers = <<"g1", "g2">>
    /\ find.ab.first.stats.renderErrors = 2

(***************************************************************************)
(* Claims about ClientGRPCGroup.                                           *)
(***************************************************************************)
\* C13: a failed operation increments exactly one error counter by one in
\* the stats it returns: find_errors for find, render_errors for fetch,
\* info, list and stats; a failed find leaves render_errors at zero.
C13_OneErrorCounter ==
    \A k \in 1..Len(group.returned) :
        LET r == group.returned[k] IN
        (~r.panic /\ r.err # NoError)
        => IF r.op = "find"
           THEN r.stats.findErrors = 1 /\ r.stats.renderErrors = 0
           ELSE r.stats.renderErrors = 1 /\ r.stats.findErrors = 0

\* C14: each of the five operations always returns rather than aborting;
\* when its RPC fails it returns the error with failed_servers =
\* [group name] and servers empty, when it succeeds it returns the
\* response with servers = [group name] and failed_servers empty.
C14_AlwaysReturns ==
    \A k \in 1..Len(group.returned) :
        LET r == group.returned[k] IN
        /\ ~r.panic
        /\ IF r.err # NoError
           THEN r.stats.failedServers = <<GroupName>> /\ r.stats.servers = <<>>
           ELSE /\ ~r.res.nil
                /\ r.stats.servers = <<GroupName>> /\ r.stats.failedServers = <<>>

====
